---- MODULE Spec2Model ----
(***************************************************************************)
(* A model of pygama's streaming core:                                     *)
(*   - DataStreamer (pygama/raw/data_streamer.py): open_stream,            *)
(*     build_default_rb_lib, read_packet, read_chunk;                      *)
(*   - VectorOfVectors (pygama/lgdo/vectorofvectors.py): set_vector,       *)
(*     __iter__, __next__, __getitem__;                                    *)
(*   - the ORCA packet header functions (pygama/raw/orca/orca_packet.py):  *)
(*     is_short, get_n_words, get_data_id;                                 *)
(*   - RawBufferLibrary as raw_buffer_test.py loads it from its JSON.      *)
(* Statements that do not parse as Python (a missing colon, 'name'=x as a  *)
(* keyword argument) are read as the statement they evidently are; what a   *)
(* statement that parses does at run time is modelled as written.  The     *)
(* names RawBuffer and RawBufferList, used without an import, are the      *)
(* classes of pygama.raw.raw_buffer.                                       *)
(***************************************************************************)
EXTENDS Integers, Sequences, FiniteSets, TLC

VARIABLES
    \* ---- DataStreamer
    ds_pc,          \* "closed" | "opened" | "failed" | "loop" | "done"
    registry,       \* what get_decoder_list() returns: a sequence of decoders
    remaining,      \* packets the stream still holds
    rb_lib,         \* self.rb_lib
    rb_lib_arg,     \* the rb_lib argument open_stream was called with
    chunk_mode,     \* self.chunk_mode
    n_bytes_read,   \* self.n_bytes_read
    any_full,       \* self.any_full
    mode,           \* read_chunk: the local chunk_mode
    rp_max,         \* read_chunk: the rp_max argument
    n_packets,      \* read_chunk: the local n_packets
    bytes_call,     \* bytes of the packets read_packet read in this call
    ret,            \* what the last read_chunk call returned or raised
    \* ---- VectorOfVectors
    vv_pc,          \* "idle", or "grow": inside set_vector, at its while loop
    flattened,      \* self.flattened_data.nda
    cumulative_length, \* self.cumulative_length.nda
    index,          \* self.index
    iter_pc,        \* "none" | "running" | "stopped": the iteration of the store
    i_vec,          \* set_vector: argument i_vec, while the call runs
    nda,            \* set_vector: argument nda, while the call runs
    vv_err,         \* the exception the last set_vector call raised, or "none"
    written,        \* the rows the successful set_vector calls wrote, in call order
    in_order,       \* TRUE while the k-th successful call wrote row k-1
    yielded,        \* the rows the last iteration produced from the store as it is
    \* ---- ORCA packet header
    packet,         \* the packet: a sequence of uint32 words, each the set of its 1 bits
    pk_done,        \* the functions called on the packet so far
    n_words,        \* what the last get_n_words(packet) returned
    shift,          \* the shift argument of the last get_data_id call
    data_id,        \* what the last get_data_id(packet, shift) returned, as a word
    \* ---- RawBufferLibrary
    rb_pc,          \* "json" | "built" | "ConfigError" | "keyed" | "looked up"
    json_dict,      \* the decoder's entry of the configuration: its binding specs
    rblist,         \* rblib[decoder]: the buffer list built from json_dict
    rb_keyed,       \* what get_keyed_dict() returned
    rb_key,         \* the key looked up in rb_keyed
    name            \* rb_keyed[rb_key].out_name

ds_vars == <<ds_pc, registry, remaining, rb_lib, rb_lib_arg, chunk_mode,
             n_bytes_read, any_full, mode, rp_max, n_packets, bytes_call, ret>>
vv_vars == <<vv_pc, flattened, cumulative_length, index, iter_pc, i_vec, nda,
             vv_err, written, in_order, yielded>>
pk_vars == <<packet, pk_done, n_words, shift, data_id>>
rb_vars == <<rb_pc, json_dict, rblist, rb_keyed, rb_key, name>>
\* what an operation of one component leaves alone: the other components
ds_others == <<vv_vars, pk_vars, rb_vars>>
vv_others == <<ds_vars, pk_vars, rb_vars>>
pk_others == <<ds_vars, vv_vars, rb_vars>>
rb_others == <<ds_vars, vv_vars, pk_vars>>
vars == <<ds_vars, vv_vars, pk_vars, rb_vars>>

(***************************************************************************)
(* Bounds of the model                                                     *)
(***************************************************************************)
MaxPackets == 3
MaxRpMax == 2
MaxBufferSize == 2
MaxLoc == 2
MaxRows == 2
MaxGuess == 1
MaxCalls == 3

(***************************************************************************)
(* Names.  A string is a sequence of tokens, so that endswith, format and  *)
(* equality of names are computed, not assumed.                            *)
(***************************************************************************)
Decoders == {"dFC", "dAux"}

\* type(decoder).__name__
TypeName(decoder) ==
    IF decoder = "dFC" THEN <<"FCEvent", "Decoder">> ELSE <<"Aux">>

Star == <<"*">>

ChunkModes == {"any_full", "only_full", "single_packet"}

\* The stores a decoder makes: dFC's have a length, dAux's have no __len__.
Sized(decoder) == decoder = "dFC"

NoLgdo == [kind |-> "none", len |-> 0]

\* RawBuffer(out_stream=..., out_name=...): loc 0, lgdo not made yet
RawBuffer(out_stream, out_name) ==
    [out_stream |-> out_stream, out_name |-> out_name, loc |-> 0, lgdo |-> NoLgdo]

NoneLib == [none |-> TRUE, ent |-> [k \in {} |-> <<>>]]
Lib(ent) == [none |-> FALSE, ent |-> ent]

\* rb_lib[key] = rb_list
SetItem(ent, key, rb_list) ==
    [k \in (DOMAIN ent) \cup {key} |-> IF k = key THEN rb_list ELSE ent[k]]

RECURSIVE Format(_, _)
\* template.format(name=key): every {name} token is replaced by key
Format(template, key) ==
    IF template = <<>> THEN <<>>
    ELSE (IF Head(template) = "{name}" THEN key ELSE <<Head(template)>>)
         \o Format(Tail(template), key)

\* RawBufferList.make_lgdos(decoder, size): every buffer of the list gets a store
make_lgdos(rb_list, decoder, size) ==
    [i \in DOMAIN rb_list |->
        [rb_list[i] EXCEPT !.lgdo =
            IF Sized(decoder) THEN [kind |-> "sized", len |-> size]
            ELSE [kind |-> "unsized", len |-> 0]]]

RECURSIVE DefaultEntries(_, _, _)
DefaultEntries(ent, decoders, out_stream) ==
    IF decoders = <<>> THEN ent
    ELSE LET dec_name == TypeName(Head(decoders))
             rb == RawBuffer(out_stream, dec_name)
         IN  DefaultEntries(SetItem(ent, dec_name, <<rb>>), Tail(decoders), out_stream)

\* build_default_rb_lib: the library is built, and returned only when there
\* are no decoders; the function ends without a return statement otherwise.
build_default_rb_lib(decoders, out_stream) ==
    IF Len(decoders) = 0 THEN Lib([k \in {} |-> <<>>])
    ELSE LET built == Lib(DefaultEntries([k \in {} |-> <<>>], decoders, out_stream))
         IN  NoneLib

\* The wildcard branch of open_stream's loop (lines 85-91)
WildcardEntry(ent, decoder) ==
    LET dec_name == TypeName(decoder)
        dec_key == dec_name    \* the result of removesuffix is dropped
        out_name == Format(ent[Star][1].out_name, dec_key)
        out_stream == Format(ent[Star][1].out_stream, dec_key)
        rb == RawBuffer(out_stream, <<decoder>>)   \* out_name=decoder
    IN  SetItem(ent, dec_name, <<rb>>)

\* OpenOne without the test `dec_name not in rb_lib`: with a "*" entry every
\* decoder gets a wildcard-made list, also one the library already holds
OpenOne_AlwaysWildcard(ent, decoder, buffer_size) ==
    LET dec_name == TypeName(decoder)
    IN  IF dec_name \notin DOMAIN ent /\ Star \notin DOMAIN ent THEN ent
        ELSE LET e1 == IF Star \in DOMAIN ent
                       THEN WildcardEntry(ent, decoder) ELSE ent
             IN  [e1 EXCEPT ![dec_name] = make_lgdos(e1[dec_name], decoder, buffer_size)]

\* One pass of open_stream's loop over the decoders (lines 79-95)
OpenOne(ent, decoder, buffer_size) ==
    LET dec_name == TypeName(decoder)
    IN  IF dec_name \notin DOMAIN ent /\ Star \notin DOMAIN ent THEN ent
        ELSE LET e1 == IF dec_name \notin DOMAIN ent
                       THEN WildcardEntry(ent, decoder) ELSE ent
             IN  [e1 EXCEPT ![dec_name] = make_lgdos(e1[dec_name], decoder, buffer_size)]

RECURSIVE OpenLoop(_, _, _)
OpenLoop(ent, decoders, buffer_size) ==
    IF decoders = <<>> THEN ent
    ELSE OpenLoop(OpenOne(ent, Head(decoders), buffer_size), Tail(decoders), buffer_size)

(***************************************************************************)
(* The libraries a caller supplies: any set of the keys below, one list    *)
(* per key, lgdo's not made yet.                                           *)
(***************************************************************************)
SuppliedList(key) ==
    IF key = TypeName("dFC")
    THEN <<RawBuffer(<<"geds">>, <<"g041">>), RawBuffer(<<"spms">>, <<"spms">>)>>
    ELSE IF key = Star
    THEN <<RawBuffer(<<"others">>, <<"{name}">>)>>
    ELSE <<RawBuffer(<<"auxs">>, key)>>

SuppliedKeys == {TypeName("dFC"), TypeName("dAux"), Star}
SuppliedLibs == {Lib([k \in K |-> SuppliedList(k)]) : K \in SUBSET SuppliedKeys}

Registries == {<<>>, <<"dFC">>, <<"dAux">>, <<"dFC", "dAux">>}

RegistryNames == {TypeName(registry[i]) : i \in DOMAIN registry}

NoRet == [tag |-> "none", list |-> {}]

\* DataStreamer.__init__; the VectorOfVectors plays no part
DSInit ==
    /\ ds_pc = "closed"
    /\ registry \in Registries
    /\ remaining = MaxPackets
    /\ rb_lib = NoneLib
    /\ rb_lib_arg = NoneLib
    /\ chunk_mode = "None"
    /\ n_bytes_read = 0
    /\ any_full = FALSE
    /\ mode = "None"
    /\ rp_max = 0
    /\ n_packets = 0
    /\ bytes_call = 0
    /\ ret = NoRet
    /\ vv_pc = "idle" /\ flattened = <<>> /\ cumulative_length = <<>>
    /\ index = -1 /\ iter_pc = "none" /\ i_vec = 0
    /\ nda = [ndim |-> 1, data |-> <<>>] /\ vv_err = "none" /\ written = <<>>
    /\ in_order = TRUE /\ yielded = <<>>
    \* no packet and no library configuration take part
    /\ packet = <<{}>> /\ pk_done = {} /\ n_words = 0 /\ shift = TRUE
    /\ data_id = {}
    /\ rb_pc = "json" /\ json_dict = <<>> /\ rblist = <<>>
    /\ rb_keyed = <<>> /\ rb_key = -1 /\ name = <<>>

\* open_stream(stream_name, rb_lib, buffer_size, chunk_mode, out_stream)
open_stream(lib_in, buffer_size, cm, out_stream) ==
    /\ ds_pc = "closed"
    /\ chunk_mode' = cm
    /\ rb_lib_arg' = lib_in
    /\ LET lib0 == IF lib_in.none THEN build_default_rb_lib(registry, out_stream)
                   ELSE lib_in
       IN  IF lib0.none
           THEN \* dec_name not in None: TypeError at the first decoder
                /\ rb_lib' = lib0
                /\ ds_pc' = "failed"
           ELSE /\ rb_lib' = Lib(OpenLoop(lib0.ent, registry, buffer_size))
                /\ ds_pc' = "opened"
    /\ UNCHANGED <<registry, remaining, n_bytes_read, any_full, mode, rp_max,
                   n_packets, bytes_call, ret>>
    /\ UNCHANGED ds_others

OpenStream ==
    \E lib_in \in SuppliedLibs \cup {NoneLib}, buffer_size \in 1..MaxBufferSize,
       cm \in ChunkModes :
        open_stream(lib_in, buffer_size, cm, <<"out">>)

(***************************************************************************)
(* read_packet: abstract in DataStreamer; the model is an overload that    *)
(* keeps the docstring's contract.  One packet is taken from the stream    *)
(* and written to the binding `target` (<<key, i>>), or dropped when        *)
(* target is Unrouted; any_full is set when a sized store is full, and may *)
(* be set earlier (`near`: within the overload's margin); n_bytes_read     *)
(* grows by the packet's bytes.                                            *)
(***************************************************************************)
Unrouted == <<<<"unrouted">>, 0>>

Bindings(ent) == {<<k, i>> : k \in DOMAIN ent, i \in 1..2} \cap
                 {b \in (DOMAIN ent) \X (1..2) : b[2] \in DOMAIN ent[b[1]]}

\* the bindings a packet can be written to: those whose store was made
Writable(ent) ==
    {b \in Bindings(ent) :
        LET rb == ent[b[1]][b[2]]
        IN  \/ rb.lgdo.kind = "sized"
            \/ rb.lgdo.kind = "unsized" /\ rb.loc < MaxLoc}

IsFull(rb) == rb.lgdo.kind = "sized" /\ rb.loc >= rb.lgdo.len

WritePacket(ent, target) ==
    IF target = Unrouted \/ IsFull(ent[target[1]][target[2]]) THEN ent
    ELSE [ent EXCEPT ![target[1]][target[2]].loc = @ + 1]

AnyFull(ent, near) ==
    near \/ \E b \in Bindings(ent) : IsFull(ent[b[1]][b[2]])

\* the bytes of a packet: a dFC record is two 32-bit words, any other one word
PacketBytes(target) ==
    IF target[1] = TypeName("dFC") THEN 8 ELSE 4

\* read_chunk, line 166
EffectiveMode(chunk_mode_override) ==
    IF chunk_mode_override = "None" THEN chunk_mode ELSE chunk_mode_override

\* LoopBreak with the any_full break skipped in mode only_full
LoopBreak_OnlyFullReadsOn(m, n, rp, af) ==
    \/ m = "single_packet"
    \/ n > rp
    \/ af /\ m # "only_full"

\* LoopBreak without the break on any_full
LoopBreak_NoFlagBreak(m, n, rp, af) ==
    \/ m = "single_packet"
    \/ n > rp

\* LoopBreak without the break on read_one_packet
LoopBreak_NoSinglePacket(m, n, rp, af) ==
    \/ n > rp
    \/ af

\* read_chunk, lines 176-177: the two break statements after n_packets += 1
LoopBreak(m, n, rp, af) ==
    \/ m = "single_packet"
    \/ n > rp
    \/ af

(***************************************************************************)
(* read_chunk, lines 179-189.  rb_lib.items() yields (key, rb_list) pairs, *)
(* so the inner loop walks a pair: first the key, a str, then the          *)
(* RawBufferList.  Neither has a loc, and nothing has an attribute lgod.   *)
(***************************************************************************)
Attrs(cls) ==
    IF cls = "RawBuffer" THEN {"out_stream", "out_name", "loc", "lgdo"} ELSE {}

\* lines 182-187 for an rb of class cls whose loc (when it has one) is loc
VisitRb(cls, loc, only_full) ==
    IF ~only_full /\ "loc" \notin Attrs(cls) THEN "AttributeError"
    ELSE IF ~only_full /\ loc > 0 THEN "append"
    ELSE IF "lgod" \notin Attrs(cls) THEN "AttributeError"
    ELSE "NameError"

\* lines 179-189: the first rb visited is the key of the first pair
CollectRbs(ent, only_full) ==
    IF DOMAIN ent = {} THEN [tag |-> "list", list |-> {}]
    ELSE [tag |-> VisitRb("str", 0, only_full), list |-> {}]

\* read_chunk, lines 166-171
ReadChunkBegin ==
    \E chunk_mode_override \in ChunkModes \cup {"None"}, rp \in 1..MaxRpMax :
        /\ ds_pc \in {"opened", "done"}
        /\ ds_pc' = "loop"
        /\ mode' = EffectiveMode(chunk_mode_override)
        /\ rp_max' = rp
        /\ n_packets' = 0
        /\ bytes_call' = 0
        /\ ret' = NoRet
        /\ UNCHANGED <<registry, remaining, rb_lib, rb_lib_arg, chunk_mode,
                       n_bytes_read, any_full>>
        /\ UNCHANGED ds_others

\* read_chunk, lines 179-189 and the return
Return ==
    /\ ds_pc' = "done"
    /\ ret' = CollectRbs(rb_lib'.ent, mode = "only_full")

\* one pass of the while loop in which read_packet finds no data (line 174)
ReadChunkNoData ==
    /\ ds_pc = "loop"
    /\ remaining = 0
    /\ UNCHANGED <<rb_lib, n_packets>>
    /\ Return
    /\ UNCHANGED <<registry, remaining, rb_lib_arg, chunk_mode, n_bytes_read,
                   any_full, mode, rp_max, bytes_call>>
    /\ UNCHANGED ds_others

\* one pass of the while loop in which read_packet reads a packet
ReadChunkPacket ==
    \E target \in Writable(rb_lib.ent) \cup {Unrouted}, near \in BOOLEAN :
        /\ ds_pc = "loop"
        /\ remaining > 0
        /\ remaining' = remaining - 1
        /\ rb_lib' = Lib(WritePacket(rb_lib.ent, target))
        /\ any_full' = AnyFull(rb_lib'.ent, near)
        /\ n_bytes_read' = n_bytes_read + PacketBytes(target)
        /\ bytes_call' = bytes_call + PacketBytes(target)
        /\ n_packets' = n_packets + 1
        /\ IF LoopBreak(mode, n_packets', rp_max, any_full')
           THEN Return
           ELSE UNCHANGED <<ds_pc, ret>>
        /\ UNCHANGED <<registry, rb_lib_arg, chunk_mode, mode, rp_max>>
        /\ UNCHANGED ds_others

\* the caller resets the buffers between two read_chunk calls (docstring note)
ClearBuffers ==
    /\ ds_pc = "done"
    /\ \E b \in Bindings(rb_lib.ent) : rb_lib.ent[b[1]][b[2]].loc > 0
    /\ rb_lib' = Lib([k \in DOMAIN rb_lib.ent |->
                        [i \in DOMAIN rb_lib.ent[k] |->
                            [rb_lib.ent[k][i] EXCEPT !.loc = 0]]])
    /\ UNCHANGED <<ds_pc, registry, remaining, rb_lib_arg, chunk_mode,
                   n_bytes_read, any_full, mode, rp_max, n_packets, bytes_call, ret>>
    /\ UNCHANGED ds_others

DSNext ==
    \/ OpenStream
    \/ ReadChunkBegin
    \/ ReadChunkNoData
    \/ ReadChunkPacket
    \/ ClearBuffers


(***************************************************************************)
(* DataStreamer: the claims                                                *)
(***************************************************************************)
InCall == ds_pc \in {"loop", "done"}

\* a step of the read loop in which read_packet read a packet
PacketStep == ds_pc = "loop" /\ n_packets' = n_packets + 1

\* C1: the packets read during one read_chunk call with cap rp_max = N are
\* at most N (as claimed; the code reads one more)
C1_AtMostRpMaxPackets == InCall => n_packets <= rp_max

Eligible(ent, m) ==
    {b \in Bindings(ent) :
        LET rb == ent[b[1]][b[2]]
        IN  IF m = "only_full" /\ rb.lgdo.kind = "sized"
            THEN rb.loc = rb.lgdo.len
            ELSE rb.loc > 0}

\* C5: read_chunk returns exactly the bindings with loc > 0 (any_full,
\* single_packet) or the full ones (only_full)
C5_ReturnsEligible ==
    ds_pc = "done" => ret.tag = "list" /\ ret.list = Eligible(rb_lib.ent, mode)

\* C6: read_chunk returns the list together with the bytes read in this call
C6_ReturnsBytesOfCall ==
    ds_pc = "done" => ret.tag = "list_and_n_bytes" /\ ret.n_bytes = bytes_call

\* C7: open_stream without a library and with decoders completes, and the
\* library holds one list of one binding, named after the decoder, per decoder
C7_DefaultLibrary ==
    (ds_pc # "closed" /\ rb_lib_arg.none /\ registry # <<>>)
    => /\ ds_pc # "failed"
       /\ ~rb_lib.none
       /\ DOMAIN rb_lib.ent = RegistryNames
       /\ \A k \in DOMAIN rb_lib.ent :
            Len(rb_lib.ent[k]) = 1 /\ rb_lib.ent[k][1].out_name = k

StripSuffix(n) ==
    IF n # <<>> /\ n[Len(n)] = "Decoder" THEN SubSeq(n, 1, Len(n) - 1) ELSE n

\* C17: the binding open_stream makes from the "*" template for a decoder
\* has the template's out_stream and out_name with {name} replaced by the
\* decoder's name, its suffix "Decoder" stripped when it has one
C17_WildcardNames ==
    (ds_pc = "opened" /\ ~rb_lib_arg.none /\ Star \in DOMAIN rb_lib_arg.ent)
    => \A k \in RegistryNames \ DOMAIN rb_lib_arg.ent :
            /\ k \in DOMAIN rb_lib.ent
            /\ rb_lib.ent[k][1].out_name =
                    Format(rb_lib_arg.ent[Star][1].out_name, StripSuffix(k))
            /\ rb_lib.ent[k][1].out_stream =
                    Format(rb_lib_arg.ent[Star][1].out_stream, StripSuffix(k))

(***************************************************************************)
(* VectorOfVectors.  A numpy array is a sequence; Python's index k is the  *)
(* sequence's k + 1.                                                       *)
(***************************************************************************)
Min(a, b) == IF a < b THEN a ELSE b

\* what an array made without fill_val holds: whatever the memory held
Garbage == {0, 9}

\* the one-dimensional rows a caller writes
Rows == {<<>>, <<1>>, <<1, 2>>, <<2, 1, 1>>}

\* the nda arguments: one-dimensional rows, and one two-dimensional array
Ndas == {[ndim |-> 1, data |-> r] : r \in Rows} \cup {[ndim |-> 2, data |-> <<1>>]}

Zeros(n) == [k \in 1..n |-> 0]

\* nda[start:end] of Python: clipped to the array, empty when start >= end
Slice(arr, start, end) == SubSeq(arr, start + 1, Min(end, Len(arr)))

NoNda == [ndim |-> 1, data |-> <<>>]

\* __init__ with shape_guess = (rows, guess): lines 54-64
VVInit ==
    \E rows \in 0..MaxRows, guess \in 0..MaxGuess :
        /\ vv_pc = "idle"
        /\ cumulative_length = Zeros(rows)
        /\ flattened \in [1..(rows * guess) -> Garbage]
        /\ index = -1
        /\ iter_pc = "none"
        /\ i_vec = 0
        /\ nda = NoNda
        /\ vv_err = "none"
        /\ written = <<>>
        /\ in_order = TRUE
        /\ yielded = <<>>
        \* no DataStreamer takes part
        /\ ds_pc = "closed" /\ registry = <<>> /\ remaining = 0
        /\ rb_lib = NoneLib /\ rb_lib_arg = NoneLib /\ chunk_mode = "None"
        /\ n_bytes_read = 0 /\ any_full = FALSE /\ mode = "None" /\ rp_max = 0
        /\ n_packets = 0 /\ bytes_call = 0 /\ ret = NoRet
        \* nor a packet, nor a library configuration
        /\ packet = <<{}>> /\ pk_done = {} /\ n_words = 0 /\ shift = TRUE
        /\ data_id = {}
        /\ rb_pc = "json" /\ json_dict = <<>> /\ rblist = <<>>
        /\ rb_keyed = <<>> /\ rb_key = -1 /\ name = <<>>

\* set_vector, line 107, with > len in place of > len - 1
BadIVec_OffByOne(i, n) == i < 0 \/ i > n

\* set_vector, line 107
BadIVec(i, n) == i < 0 \/ i > n - 1

\* set_vector, line 110
BadShape(v) == v.ndim # 1

\* Start reading the row's own offset, not the one of the row before it
Start_OwnOffset(i) == IF i = 0 THEN 0 ELSE cumulative_length[i + 1]

\* set_vector, line 113
Start(i) == IF i = 0 THEN 0 ELSE cumulative_length[i]

\* End as the row's own length, not added to where the row starts
End_RowLength(i, v) == Len(v.data)

\* set_vector, line 114
End(i, v) == Start(i) + Len(v.data)

\* set_vector, line 115: the condition of the while loop
MustGrow(end, len) == end >= len

\* set_vector, lines 107-114: the checks; a call that passes them is at the
\* loop.  The caller writes between iterations, not during one.
set_vector(i, v) ==
    /\ vv_pc = "idle"
    /\ iter_pc # "running"
    /\ Len(written) < MaxCalls
    /\ IF BadIVec(i, Len(cumulative_length))
       THEN vv_err' = "bad i_vec" /\ UNCHANGED <<vv_pc, i_vec, nda>>
       ELSE IF BadShape(v)
       THEN vv_err' = "nda had bad shape" /\ UNCHANGED <<vv_pc, i_vec, nda>>
       ELSE vv_err' = "none" /\ vv_pc' = "grow" /\ i_vec' = i /\ nda' = v
    /\ UNCHANGED <<flattened, cumulative_length, index, iter_pc, written,
                   in_order, yielded>>
    /\ UNCHANGED vv_others

SetVectorCall ==
    \E i \in -1..Len(cumulative_length), v \in Ndas : set_vector(i, v)

\* set_vector, lines 115-116: one pass of the while loop; resize fills with 0
SetVectorGrow ==
    /\ vv_pc = "grow"
    /\ MustGrow(End(i_vec, nda), Len(flattened))
    /\ flattened' = flattened \o Zeros(Len(flattened))
    /\ UNCHANGED <<vv_pc, cumulative_length, index, iter_pc, i_vec, nda, vv_err,
                   written, in_order, yielded>>
    /\ UNCHANGED vv_others

\* set_vector, lines 117-118, and the return
SetVectorWrite ==
    /\ vv_pc = "grow"
    /\ ~MustGrow(End(i_vec, nda), Len(flattened))
    /\ flattened' = [k \in 1..Len(flattened) |->
                        IF Start(i_vec) < k /\ k <= End(i_vec, nda)
                        THEN nda.data[k - Start(i_vec)] ELSE flattened[k]]
    /\ IF i_vec + 1 \in DOMAIN cumulative_length
       THEN /\ cumulative_length' =
                [cumulative_length EXCEPT ![i_vec + 1] = End(i_vec, nda)]
            /\ vv_err' = "none"
            /\ written' = Append(written, nda.data)
            /\ in_order' = (in_order /\ i_vec = Len(written))
       ELSE /\ vv_err' = "IndexError"
            /\ UNCHANGED <<cumulative_length, written, in_order>>
    /\ vv_pc' = "idle"
    /\ i_vec' = 0
    /\ nda' = NoNda
    /\ iter_pc' = "none"
    /\ yielded' = <<>>
    /\ UNCHANGED index
    /\ UNCHANGED vv_others

\* __iter__, lines 120-122
Iter ==
    /\ vv_pc = "idle"
    /\ index' = 0
    /\ iter_pc' = "running"
    /\ yielded' = <<>>
    /\ UNCHANGED <<vv_pc, flattened, cumulative_length, i_vec, nda, vv_err,
                   written, in_order>>
    /\ UNCHANGED vv_others

\* __next__, lines 124-136
NextRow ==
    /\ vv_pc = "idle"
    /\ iter_pc = "running"
    /\ IF index + 1 \in DOMAIN cumulative_length
       THEN LET start == IF index = 0 THEN 0 ELSE cumulative_length[index]
                end == cumulative_length[index + 1]
            IN  /\ yielded' = Append(yielded, Slice(flattened, start, end))
                /\ index' = index + 1
                /\ UNCHANGED iter_pc
       ELSE \* IndexError, turned into StopIteration
            /\ iter_pc' = "stopped"
            /\ UNCHANGED <<index, yielded>>
    /\ UNCHANGED <<vv_pc, flattened, cumulative_length, i_vec, nda, vv_err,
                   written, in_order>>
    /\ UNCHANGED vv_others

VVNext ==
    \/ SetVectorCall
    \/ SetVectorGrow
    \/ SetVectorWrite
    \/ Iter
    \/ NextRow

\* __getitem__, line 139: list(self)[index].  list(self) calls __iter__, which
\* sets self.index to 0, and then __next__ until it raises StopIteration,
\* which leaves self.index at the number of rows.  The index read is one
\* of a row the store has.
GetItem ==
    /\ vv_pc = "idle"
    /\ \E k \in 0..(Len(cumulative_length) - 1) :
        index' = Len(cumulative_length)
    /\ UNCHANGED <<vv_pc, flattened, cumulative_length, iter_pc, i_vec, nda,
                   vv_err, written, in_order, yielded>>
    /\ UNCHANGED vv_others

\* a second iteration of the same store, begun while the first is under way:
\* __iter__ (lines 120-122) and then m calls of __next__ (lines 124-136).
\* It comes in while the first iteration has yielded no more rows than the
\* store has, which keeps the rows the first one yields finite.
OtherIteration ==
    /\ vv_pc = "idle"
    /\ iter_pc = "running"
    /\ Len(yielded) <= Len(cumulative_length)
    /\ \E m \in 0..(Len(cumulative_length) + 1) :
        index' = Min(m, Len(cumulative_length))
    /\ UNCHANGED <<vv_pc, flattened, cumulative_length, iter_pc, i_vec, nda,
                   vv_err, written, in_order, yielded>>
    /\ UNCHANGED vv_others

\* one store read by an iteration, index reads and a second iteration
VVSharedNext ==
    \/ SetVectorCall
    \/ SetVectorGrow
    \/ SetVectorWrite
    \/ Iter
    \/ NextRow
    \/ GetItem
    \/ OtherIteration

(***************************************************************************)
(* VectorOfVectors: the claims                                             *)
(***************************************************************************)
\* C9: rows written at indices 0..n in index order into a store of n + 1
\* rows come back from an iteration as n + 1 rows, the i-th equal to ri
C9_RoundTrip ==
    (iter_pc = "stopped" /\ in_order /\ Len(written) = Len(cumulative_length))
    => yielded = written

C9_Witness ==
    /\ iter_pc = "stopped" /\ in_order
    /\ Len(cumulative_length) = 2
    /\ written = <<<<2, 1, 1>>, <<>>>>
    /\ yielded = written

\* the arguments the claim C10 names
BadArgs(i, v) == i < 0 \/ i >= Len(cumulative_length) \/ v.ndim # 1

\* C10: set_vector with a row index out of range or a row that is not
\* one-dimensional raises and leaves flattened data, capacity and offsets
\* as they were
C10_BadCallLeavesStore ==
    [][(\E i \in -1..Len(cumulative_length), v \in Ndas :
            BadArgs(i, v) /\ set_vector(i, v))
        => /\ vv_err' \in {"bad i_vec", "nda had bad shape"}
           /\ vv_pc' = "idle"
           /\ flattened' = flattened
           /\ cumulative_length' = cumulative_length]_vars

C10_Witness ==
    /\ vv_pc = "idle" /\ vv_err = "bad i_vec"
    /\ Len(written) > 0 /\ cumulative_length[Len(cumulative_length)] > 0

\* C11: after any successful set_vector calls, at any row indices in any
\* order, on a store created with all offsets 0, each offset is at most the
\* next one
C11_OffsetsNonDecreasing ==
    vv_pc = "idle" =>
        \A k \in 1..(Len(cumulative_length) - 1) :
            cumulative_length[k] <= cumulative_length[k + 1]

\* C11, amended: while the rows are written once each in index order, the
\* offsets of the rows written so far are non-decreasing
C11_WrittenOffsetsNonDecreasing ==
    in_order =>
        \A k \in 1..(Len(written) - 1) :
            cumulative_length[k] <= cumulative_length[k + 1]

C11_Witness ==
    /\ in_order /\ Len(written) = 2 /\ vv_pc = "idle"
    /\ written[2] # <<>>
    /\ cumulative_length[1] < cumulative_length[2]

\* C18: set_vector changes the capacity only when the row's end index
\* exceeds it; when the end index is at most the capacity, the capacity
\* stays; a growth multiplies the capacity by a power of two and keeps the
\* elements below the row's start index
C18_GrowsOnlyWhenExceeded ==
    [][SetVectorGrow =>
        /\ End(i_vec, nda) > Len(flattened)
        /\ Len(flattened') = 2 * Len(flattened)
        /\ \A k \in 1..Start(i_vec) : k \in DOMAIN flattened => flattened'[k] = flattened[k]]_vars

\* C19: a set_vector call with a valid row index and a one-dimensional row
\* terminates: while it is at its loop, a pass of the loop is a step forward
\* or the write is next
C19_CallTerminates ==
    vv_pc = "grow" => ENABLED <<SetVectorGrow \/ SetVectorWrite>>_vars

\* the rows the store holds, in order
StoredRows ==
    [k \in DOMAIN cumulative_length |->
        Slice(flattened, IF k = 1 THEN 0 ELSE cumulative_length[k - 1],
              cumulative_length[k])]

\* C20: an iteration yields all rows in order, each once, also when an
\* index read or a second iteration of the same store comes in between
C20_IterationYieldsAllRows ==
    iter_pc = "stopped" => yielded = StoredRows

(***************************************************************************)
(* ORCA packets.  A packet is a sequence of uint32 words; a word is the    *)
(* set of the positions of its 1 bits, bit 0 the least significant, so     *)
(* that all 32 bits are kept.  Python's packet[0] is the sequence's        *)
(* packet[1].                                                              *)
(***************************************************************************)
WordBits == 32

\* the word a hexadecimal literal denotes, from its digits as written
HexBits(h) ==
    {b \in 0..(4 * Len(h) - 1) : (h[Len(h) - (b \div 4)] \div (2 ^ (b % 4))) % 2 = 1}

\* a & m
BitAnd(a, m) == a \cap m

\* a >> k
ShiftRight(a, k) == {b - k : b \in {x \in a : x >= k}}

\* a << k, kept to the width of the word
ShiftLeft(a, k) == {b + k : b \in {x \in a : x + k < WordBits}}

RECURSIVE Value(_)
\* the number a word denotes (for words below 2^31)
Value(a) ==
    IF a = {} THEN 0
    ELSE LET b == CHOOSE x \in a : TRUE IN 2 ^ b + Value(a \ {b})

\* is_short testing bit 30 in place of bit 31
is_short_Bit30(pkt) == 30 \in pkt[1]

\* is_short, line 19: bool(packet[0] >> 31)
is_short(pkt) == ShiftRight(pkt[1], 31) # {}

\* get_n_words with the mask 0x7FFFF
get_n_words_WideMask(pkt) ==
    IF is_short(pkt) THEN 1
    ELSE Value(BitAnd(pkt[1], HexBits(<<7, 15, 15, 15, 15>>)))

\* get_n_words, lines 23-24: the mask is 0x3FFFF
get_n_words(pkt) ==
    IF is_short(pkt) THEN 1
    ELSE Value(BitAnd(pkt[1], HexBits(<<3, 15, 15, 15, 15>>)))

\* get_data_id with the long form's mask 0x00FC0000
get_data_id_LongSixBits(pkt, sh) ==
    IF is_short(pkt)
    THEN IF sh THEN ShiftRight(BitAnd(pkt[1], HexBits(<<15, 12, 0, 0, 0, 0, 0, 0>>)), 26)
         ELSE BitAnd(pkt[1], HexBits(<<15, 12, 0, 0, 0, 0, 0, 0>>))
    ELSE IF sh THEN ShiftRight(BitAnd(pkt[1], HexBits(<<0, 0, 15, 12, 0, 0, 0, 0>>)), 18)
         ELSE BitAnd(pkt[1], HexBits(<<0, 0, 15, 12, 0, 0, 0, 0>>))

\* get_data_id with the short form shifted by 25
get_data_id_ShortShift25(pkt, sh) ==
    IF is_short(pkt)
    THEN IF sh THEN ShiftRight(BitAnd(pkt[1], HexBits(<<15, 12, 0, 0, 0, 0, 0, 0>>)), 25)
         ELSE BitAnd(pkt[1], HexBits(<<15, 12, 0, 0, 0, 0, 0, 0>>))
    ELSE IF sh THEN ShiftRight(BitAnd(pkt[1], HexBits(<<15, 15, 15, 12, 0, 0, 0, 0>>)), 18)
         ELSE BitAnd(pkt[1], HexBits(<<15, 15, 15, 12, 0, 0, 0, 0>>))

\* get_data_id, lines 30-34: the masks are 0xFC000000 and 0xFFFC0000
get_data_id(pkt, sh) ==
    IF is_short(pkt)
    THEN IF sh THEN ShiftRight(BitAnd(pkt[1], HexBits(<<15, 12, 0, 0, 0, 0, 0, 0>>)), 26)
         ELSE BitAnd(pkt[1], HexBits(<<15, 12, 0, 0, 0, 0, 0, 0>>))
    ELSE IF sh THEN ShiftRight(BitAnd(pkt[1], HexBits(<<15, 15, 15, 12, 0, 0, 0, 0>>)), 18)
         ELSE BitAnd(pkt[1], HexBits(<<15, 15, 15, 12, 0, 0, 0, 0>>))

\* the bits of the first word the packets differ in: the ends of every field
HeaderBits == {0, 17, 18, 23, 24, 25, 26, 30, 31}

\* the words after the first
Payloads == {<<>>, <<{}>>, <<0..(WordBits - 1)>>}

Packets == {<<w>> \o pl : w \in SUBSET HeaderBits, pl \in Payloads}

PKInit ==
    /\ packet \in Packets
    /\ pk_done = {} /\ n_words = 0 /\ shift = TRUE /\ data_id = {}
    \* no DataStreamer, no VectorOfVectors, no library configuration take part
    /\ ds_pc = "closed" /\ registry = <<>> /\ remaining = 0
    /\ rb_lib = NoneLib /\ rb_lib_arg = NoneLib /\ chunk_mode = "None"
    /\ n_bytes_read = 0 /\ any_full = FALSE /\ mode = "None" /\ rp_max = 0
    /\ n_packets = 0 /\ bytes_call = 0 /\ ret = NoRet
    /\ vv_pc = "idle" /\ flattened = <<>> /\ cumulative_length = <<>>
    /\ index = -1 /\ iter_pc = "none" /\ i_vec = 0
    /\ nda = NoNda /\ vv_err = "none" /\ written = <<>>
    /\ in_order = TRUE /\ yielded = <<>>
    /\ rb_pc = "json" /\ json_dict = <<>> /\ rblist = <<>>
    /\ rb_keyed = <<>> /\ rb_key = -1 /\ name = <<>>

GetNWords ==
    /\ n_words' = get_n_words(packet)
    /\ pk_done' = pk_done \cup {"get_n_words"}
    /\ UNCHANGED <<packet, shift, data_id>>
    /\ UNCHANGED pk_others

GetDataId ==
    \E sh \in BOOLEAN :
        /\ shift' = sh
        /\ data_id' = get_data_id(packet, sh)
        /\ pk_done' = pk_done \cup {"get_data_id"}
        /\ UNCHANGED <<packet, n_words>>
        /\ UNCHANGED pk_others

PKNext ==
    \/ GetNWords
    \/ GetDataId

(***************************************************************************)
(* ORCA packets: the claims                                                *)
(***************************************************************************)
\* C12: get_n_words returns 1 when bit 31 of the first word is set and
\* otherwise the value of bits 0-17 of the first word, whatever the other
\* bits and the other words hold
C12_NWords ==
    "get_n_words" \in pk_done =>
        n_words = IF 31 \in packet[1] THEN 1 ELSE Value(packet[1]) % (2 ^ 18)

C12_Witness ==
    /\ "get_n_words" \in pk_done
    /\ packet[1] = {0, 17, 18, 24, 30}
    /\ n_words = 2 ^ 17 + 1

\* C13: get_n_words is at least 1 for every packet, also for a long packet
\* whose low 18 bits are all zero
C13_AtLeastOneWord == "get_n_words" \in pk_done => n_words >= 1

\* C13, amended: get_n_words is at least 1 for every short packet and for
\* every long packet whose low 18 bits are not all zero, and it is 0 for a
\* long packet whose low 18 bits are all zero
C13_AtLeastOneWordUnlessZeroCount ==
    "get_n_words" \in pk_done =>
        IF 31 \notin packet[1] /\ packet[1] \cap (0..17) = {}
        THEN n_words = 0
        ELSE n_words >= 1

C13_Witness ==
    /\ "get_n_words" \in pk_done
    /\ packet[1] = {17, 24}
    /\ Len(packet) = 2
    /\ n_words = 2 ^ 17

\* C14: for every long packet get_data_id with shift returns the 6-bit
\* value of bits 18-23 of the first word, whatever bits 24-30 hold, and
\* without shift the same field in place
C14_LongIdSixBits ==
    ("get_data_id" \in pk_done /\ 31 \notin packet[1]) =>
        /\ shift => data_id = {b - 18 : b \in packet[1] \cap (18..23)}
        /\ ~shift => data_id = packet[1] \cap (18..23)

\* C14, amended: for every long packet get_data_id with shift returns the
\* value of bits 18-31 of the first word moved down to bit 0, below 2^13,
\* and without shift the same bits in place
C14_LongIdBits18To31 ==
    ("get_data_id" \in pk_done /\ 31 \notin packet[1]) =>
        /\ shift => /\ data_id = {b - 18 : b \in packet[1] \cap (18..31)}
                    /\ Value(data_id) < 2 ^ 13
        /\ ~shift => data_id = packet[1] \cap (18..31)

C14_Witness ==
    /\ "get_data_id" \in pk_done /\ shift
    /\ packet[1] = {0, 18, 24, 30}
    /\ Value(data_id) = 1 + 64 + 4096

\* C15: for every short packet get_data_id with shift returns the 6-bit
\* value of bits 26-31 of the first word, whatever the bits below 26 and
\* the later words hold, and without shift that value shifted left by 26
C15_ShortId ==
    ("get_data_id" \in pk_done /\ 31 \in packet[1]) =>
        /\ shift => /\ data_id = {b - 26 : b \in packet[1] \cap (26..31)}
                    /\ Value(data_id) \in 0..63
        /\ ~shift => data_id = ShiftLeft(get_data_id(packet, TRUE), 26)

C15_Witness ==
    /\ "get_data_id" \in pk_done /\ shift
    /\ packet = <<{0, 25, 26, 31}, 0..(WordBits - 1)>>
    /\ Value(data_id) = 33

(***************************************************************************)
(* RawBufferLibrary as test_rb_json_load uses it.  pygama/raw/raw_buffer.py *)
(* is not part of the sources at hand: the expansion of a configuration    *)
(* into a buffer list and its keyed dictionary follow the library's        *)
(* specification.  A string is a sequence of tokens.                       *)
(***************************************************************************)
DigitChar == <<"0", "1", "2", "3", "4", "5", "6", "7", "8", "9">>

RECURSIVE Digits(_)
\* format(k, 'd')
Digits(k) ==
    IF k < 10 THEN <<DigitChar[k + 1]>>
    ELSE Digits(k \div 10) \o <<DigitChar[(k % 10) + 1]>>

RECURSIVE PadLeft(_, _, _)
\* fill and '>' of a format specification: fill on the left up to the width
PadLeft(str, width, fill) ==
    IF Len(str) >= width THEN str ELSE PadLeft(<<fill>> \o str, width, fill)

RECURSIVE FormatKey(_, _)
\* template.format(key=k), the template's field being {key:0>3d}
FormatKey(template, k) ==
    IF template = <<>> THEN <<>>
    ELSE (IF Head(template) = "{key:0>3d}" THEN PadLeft(Digits(k), 3, "0")
          ELSE <<Head(template)>>)
         \o FormatKey(Tail(template), k)

RECURSIVE FormatKw(_)
\* template.format(**kw_dict) with kw_dict = {'file_key': 'run0'}
FormatKw(template) ==
    IF template = <<>> THEN <<>>
    ELSE <<IF Head(template) = "{file_key}" THEN "run0" ELSE Head(template)>>
         \o FormatKw(Tail(template))

\* the entries of a key_list: an integer, or a pair [lo, hi]
KeyInt(k) == [kind |-> "int", lo |-> k, hi |-> k]
KeyRange(lo, hi) == [kind |-> "range", lo |-> lo, hi |-> hi]

BindingSpec(nm, key_list, out_stream) ==
    [name |-> nm, key_list |-> key_list, out_stream |-> out_stream]

\* rb_json["FlashCamEventDecoder"], the range of its first binding [lo, hi]
rb_json(lo, hi) ==
    << BindingSpec(<<"g", "{key:0>3d}">>, <<KeyRange(lo, hi)>>,
                   <<"$DATADIR/", "{file_key}", "_geds.lh5:/geds">>),
       BindingSpec(<<"spms">>, <<KeyRange(6, 23)>>,
                   <<"$DATADIR/", "{file_key}", "_spms.lh5">>),
       BindingSpec(<<"puls">>, <<KeyInt(0)>>,
                   <<"$DATADIR/", "{file_key}", "_auxs.lh5:/auxs">>),
       BindingSpec(<<"muvt">>, <<KeyInt(1), KeyInt(5)>>,
                   <<"$DATADIR/", "{file_key}", "_auxs.lh5:/auxs">>) >>

\* the configuration {"DecoderA": {"g{key:0>3d}": {"key_list": [[lo, hi]],
\* "out_stream": "X"}}}
OneRange(lo, hi) ==
    << BindingSpec(<<"g", "{key:0>3d}">>, <<KeyRange(lo, hi)>>, <<"X">>) >>

\* the ends of the ranges the configurations are drawn with
KeyEnds == {0, 4, 9, 24, 41, 64, 120}

\* the keys of a key_list, a pair [lo, hi] without its upper end
Keys_HalfOpen(key_list) ==
    UNION {key_list[i].lo..(key_list[i].hi - 1) : i \in DOMAIN key_list}

\* the keys of a key_list: integers as they are, a pair [lo, hi] inclusive
Keys(key_list) ==
    UNION {key_list[i].lo..key_list[i].hi : i \in DOMAIN key_list}

\* two bindings of one list declare the same key
Overlapping(cfg) ==
    \E i, j \in DOMAIN cfg :
        i < j /\ Keys(cfg[i].key_list) \cap Keys(cfg[j].key_list) # {}

\* the keys of a set in ascending order
Ascending(S) ==
    [i \in 1..Cardinality(S) |->
        CHOOSE x \in S : Cardinality({y \in S : y < x}) = i - 1]

KeyedBuffer(key_list, out_stream, out_name) ==
    [key_list |-> key_list, out_stream |-> out_stream, out_name |-> out_name,
     loc |-> 0, lgdo |-> NoLgdo]

\* one binding specification becomes one buffer per key when its name holds
\* the key's field, and one buffer for all its keys otherwise
ExpandSpec(bs) ==
    IF \E t \in DOMAIN bs.name : bs.name[t] = "{key:0>3d}"
    THEN LET ks == Ascending(Keys(bs.key_list))
         IN  [i \in DOMAIN ks |->
                 KeyedBuffer({ks[i]}, FormatKw(bs.out_stream), FormatKey(bs.name, ks[i]))]
    ELSE <<KeyedBuffer(Keys(bs.key_list), FormatKw(bs.out_stream), bs.name)>>

RECURSIVE BuildList(_)
BuildList(cfg) ==
    IF cfg = <<>> THEN <<>> ELSE ExpandSpec(Head(cfg)) \o BuildList(Tail(cfg))

\* RawBufferList.get_keyed_dict(): each declared key maps to its buffer
get_keyed_dict(rb_list) ==
    [k \in UNION {rb_list[i].key_list : i \in DOMAIN rb_list} |->
        rb_list[CHOOSE i \in DOMAIN rb_list : k \in rb_list[i].key_list]]

RBInit ==
    /\ \E lo \in KeyEnds, hi \in KeyEnds :
           lo <= hi /\ json_dict \in {rb_json(lo, hi), OneRange(lo, hi)}
    /\ rb_pc = "json" /\ rblist = <<>>
    /\ rb_keyed = <<>> /\ rb_key = -1 /\ name = <<>>
    \* no DataStreamer, no VectorOfVectors, no packet take part
    /\ ds_pc = "closed" /\ registry = <<>> /\ remaining = 0
    /\ rb_lib = NoneLib /\ rb_lib_arg = NoneLib /\ chunk_mode = "None"
    /\ n_bytes_read = 0 /\ any_full = FALSE /\ mode = "None" /\ rp_max = 0
    /\ n_packets = 0 /\ bytes_call = 0 /\ ret = NoRet
    /\ vv_pc = "idle" /\ flattened = <<>> /\ cumulative_length = <<>>
    /\ index = -1 /\ iter_pc = "none" /\ i_vec = 0
    /\ nda = NoNda /\ vv_err = "none" /\ written = <<>>
    /\ in_order = TRUE /\ yielded = <<>>
    /\ packet = <<{}>> /\ pk_done = {} /\ n_words = 0 /\ shift = TRUE
    /\ data_id = {}

\* rblib = RawBufferLibrary(json_dict=json_dict, kw_dict=kw_dict)
LoadLibrary ==
    /\ rb_pc = "json"
    /\ IF Overlapping(json_dict)
       THEN rb_pc' = "ConfigError" /\ UNCHANGED rblist
       ELSE rb_pc' = "built" /\ rblist' = BuildList(json_dict)
    /\ UNCHANGED <<json_dict, rb_keyed, rb_key, name>>
    /\ UNCHANGED rb_others

\* rb_keyed = rblib['FlashCamEventDecoder'].get_keyed_dict()
GetKeyedDict ==
    /\ rb_pc = "built"
    /\ rb_keyed' = get_keyed_dict(rblist)
    /\ rb_pc' = "keyed"
    /\ UNCHANGED <<json_dict, rblist, rb_key, name>>
    /\ UNCHANGED rb_others

\* name = rb_keyed[k].out_name
Lookup ==
    /\ rb_pc = "keyed"
    /\ \E k \in (DOMAIN rb_keyed) \cup KeyEnds :
        /\ rb_key' = k
        /\ IF k \in DOMAIN rb_keyed
           THEN rb_pc' = "looked up" /\ name' = rb_keyed[k].out_name
           ELSE rb_pc' = "KeyError" /\ UNCHANGED name
    /\ UNCHANGED <<json_dict, rblist, rb_keyed>>
    /\ UNCHANGED rb_others

RBNext ==
    \/ LoadLibrary
    \/ GetKeyedDict
    \/ Lookup

(***************************************************************************)
(* RawBufferLibrary: the claims                                            *)
(***************************************************************************)
\* "g" followed by k in three digits
ThreeDigitName(k) ==
    <<"g", DigitChar[(k \div 100) + 1], DigitChar[((k \div 10) % 10) + 1],
      DigitChar[(k % 10) + 1]>>

\* C16: for a binding named g{key:0>3d} with a key_list range [lo, hi], the
\* keyed dictionary maps every key k of lo..hi to a buffer whose out_name is
\* "g" followed by k zero-padded to three digits
C16_KeyedNames ==
    /\ rb_pc \in {"keyed", "looked up", "KeyError"} =>
        \A i \in DOMAIN json_dict :
            json_dict[i].name = <<"g", "{key:0>3d}">> =>
                \A e \in DOMAIN json_dict[i].key_list :
                    \A k \in json_dict[i].key_list[e].lo..json_dict[i].key_list[e].hi :
                        /\ k \in DOMAIN rb_keyed
                        /\ rb_keyed[k].out_name = ThreeDigitName(k)
    /\ (rb_pc = "looked up" /\ rb_key \in json_dict[1].key_list[1].lo..json_dict[1].key_list[1].hi)
        => name = ThreeDigitName(rb_key)

C16_Witness ==
    /\ rb_pc = "looked up"
    /\ json_dict = rb_json(24, 64)
    /\ rb_key = 41
    /\ name = <<"g", "0", "4", "1">>

SpecVV == VVInit /\ [][VVNext]_vars

SpecVVShared == VVInit /\ [][VVSharedNext]_vars

SpecDS == DSInit /\ [][DSNext]_vars

SpecPK == PKInit /\ [][PKNext]_vars

SpecRB == RBInit /\ [][RBNext]_vars
====
